---------------------------- MODULE Spec2Model ----------------------------
(***************************************************************************)
(* Model of katalog-lib's ipc crate, src/ipc/src/single_process.rs:        *)
(* the single_process / subscribe_only entry points, the Publish Path,     *)
(* the Replace/Acquire loop, the Subscriber Loop thread and the            *)
(* SubscriberHandle.                                                       *)
(*                                                                         *)
(* The iceoryx2 transport is an external collaborator.  What the model     *)
(* keeps of it is what the code relies on: a data channel whose            *)
(* subscriber_builder().create() succeeds only while fewer than            *)
(* max_subscribers subscribers exist, a per-subscriber receive buffer      *)
(* filled by send(), and an event channel whose notify() marks an event    *)
(* id as fired on every listener that exists at that moment.  Every        *)
(* fallible transport call has a failing outcome chosen nondeterministically.*)
(*                                                                         *)
(* Time is counted in milliseconds.  Each caller carries the time it has   *)
(* spent in node.wait() since it entered the Replace/Acquire loop.  The    *)
(* local variables of a call are cleared when the call returns.            *)
(***************************************************************************)
EXTENDS Integers, Sequences, FiniteSets, TLC

\* ---------------------------------------------------------------- bounds
\* Number of threads that call single_process / subscribe_only once each in
\* the general specifications.
NCallers == 2

\* The calling threads: one more than NCallers, for the race of two
\* subscribe_only callers against a subscriber.
Callers == 1..(NCallers + 1)

\* The threads that make calls in the general specifications.
General == 1..NCallers

\* The threads that may call subscribe_only.  Threads are interchangeable, so
\* the first one is taken to call single_process.
Acquirers == General \ {1}

\* The counters of creation attempts and of Replace signals stop counting here.
MaxCount == 2

\* Largest number of nodes in the registry the sweep lists.
MaxNodes == 2

\* Longest path converted, in bytes.
MaxPathLen == 3

\* The capacity N of StaticPath<N>.
N == 2

\* Longest list partial_variants yields, and the number of values of the type.
MaxVariants == 3

\* The process a calling thread belongs to: two threads per process, so that
\* SubscriberHandle::new runs on different threads of one process.
ProcOf(c) == (c + 1) \div 2

Procs == {ProcOf(c) : c \in Callers}

\* ------------------------------------------------------ program constants
\* A data channel built without the limit of one subscriber.
max_subscribers_unlimited == 1 + NCallers

\* .max_subscribers(1) of the data channel.
max_subscribers == 1

\* EventId of the "new data" signal.
NOTIFY_EVENT == 11

\* EventId of the "please vacate" signal.
REPLACE_EVENT == 13

\* Initial value of max_sleep, 0.002 s.
InitialSleepMs == 2

\* Cap of max_sleep, 0.1 s.
SleepCapMs == 100

\* Default of subscribe_only's timeout parameter.
DefaultTimeoutMs == 200

\* Post-publish wait when the Notify signal was delivered.
SettleShortMs == 50

\* Post-publish wait when the Notify signal failed.
SettleLongMs == 200

\* First value of the static COUNTER of SubscriberHandle::new.
CounterStart == 1

\* A timeout shorter than the default, in ms.
ShortTimeoutMs == 6

\* The timeouts callers pass to subscribe_only when every interleaving is explored.
Timeouts == {0, ShortTimeoutMs}

Min(a, b) == IF a < b THEN a ELSE b

\* The durations ::rand::random_range(0.0..=max_sleep) is sampled at: both
\* ends of the range.
WaitChoices(bound) == {0, bound}

VARIABLES
    pc,         \* caller -> position of the calling thread
    kind,       \* caller -> "none" | "single_process" | "subscribe_only"
    result,     \* caller -> what the call returned ("none" while running)
    loc,        \* caller -> the local variables of its call
    sub,        \* caller -> its Subscriber object exists (it holds a slot)
    queue,      \* caller -> receive buffer of its Subscriber
    lpc,        \* caller -> position of the Subscriber Loop thread it spawned
    keep_alive, \* caller -> value of the AtomicBool of its loop
    strong,     \* caller -> the Arc<AtomicBool> of its loop still exists
    pend,       \* caller -> event ids fired on its listener since the last wait
    handled,    \* caller -> messages its handler was invoked with, in order
    subscriber_id, \* caller -> identity SubscriberHandle::new gave (0: none)
    COUNTER,    \* process -> the static COUNTER of SubscriberHandle::new
    close_called, \* caller -> close() has been called on its handle
    ended_by,   \* caller -> why its loop left the while loop ("none": it has not)
    waits_after_close, \* caller -> waits its loop started after close() was called
    sent,       \* caller -> its message.send() returned Ok
    sent_to,    \* caller -> the subscribers its message was pushed to
    prov,       \* one run of the Channel Provisioner, followed step by step
    sp,         \* one conversion of a path to StaticPath<N> and back
    cyc         \* one call of partial_cycle_next or partial_cycle_prev

vars == <<pc, kind, result, loc, sub, queue, lpc, keep_alive, strong, pend,
          handled, subscriber_id, COUNTER, close_called, ended_by,
          waits_after_close, sent, sent_to, prov, sp, cyc>>

callerVars == <<pc, kind, result, loc>>
loopVars == <<lpc, keep_alive, strong, pend, handled, ended_by, waits_after_close>>
handleVars == <<subscriber_id, COUNTER, close_called>>
sendVars == <<sent, sent_to>>
callVars == <<callerVars, sub, queue, loopVars, handleVars, sendVars>>
pureVars == <<prov, sp, cyc>>

\* The locals of a call: timeout (the parameter), elapsed (ms since
\* timeout_instant was computed), max_sleep (the backoff bound, ms), attempts
\* (subscriber creation attempts made), replaces (Replace signals fired),
\* settle (duration chosen for the post-publish wait, ms), hit (the first
\* Replace signal reached the listener of a loop that held the slot).
NoLocals ==
    [timeout |-> 0, elapsed |-> 0, max_sleep |-> 0, attempts |-> 0,
     replaces |-> 0, settle |-> 0, hit |-> FALSE]

\* No provisioner run is followed.
NoProvision ==
    [at |-> "off", name_ok |-> TRUE, node_ok |-> TRUE, first |-> "ok",
     list_ok |-> TRUE, nodes |-> <<>>, second |-> "ok", event_ok |-> TRUE,
     result |-> "none", error |-> "none", attempts |-> 0, sweeps |-> 0,
     warned |-> 0, event_attempts |-> 0]

\* No FromPathError and no IntoPathError.
NoError == [kind |-> "none", at_most |-> 0, len |-> 0]

\* No conversion is followed.
NoStaticPath ==
    [at |-> "off", platform |-> "unix", path |-> <<>>, data |-> <<>>, len |-> 0,
     error |-> NoError, back |-> <<>>]

\* No call of partial_cycle_next or partial_cycle_prev is followed.  x: the
\* value the first call was made on.
NoCycle ==
    [at |-> "off", variants |-> <<>>, self |-> 0, pos |-> 0, first |-> 0, out |-> 0,
     last |-> 0, x |-> 0, chained |-> FALSE]

\* No call has been made.
NoCalls ==
    /\ pc = [c \in Callers |-> "idle"]
    /\ kind = [c \in Callers |-> "none"]
    /\ result = [c \in Callers |-> "none"]
    /\ loc = [c \in Callers |-> NoLocals]
    /\ sub = [c \in Callers |-> FALSE]
    /\ queue = [c \in Callers |-> <<>>]
    /\ lpc = [c \in Callers |-> "none"]
    /\ keep_alive = [c \in Callers |-> FALSE]
    /\ strong = [c \in Callers |-> FALSE]
    /\ pend = [c \in Callers |-> {}]
    /\ handled = [c \in Callers |-> <<>>]
    /\ subscriber_id = [c \in Callers |-> 0]
    /\ COUNTER = [p \in Procs |-> CounterStart]
    /\ close_called = [c \in Callers |-> FALSE]
    /\ ended_by = [c \in Callers |-> "none"]
    /\ waits_after_close = [c \in Callers |-> 0]
    /\ sent = [c \in Callers |-> FALSE]
    /\ sent_to = [c \in Callers |-> {}]

Init ==
    /\ NoCalls
    /\ prov = NoProvision
    /\ sp = NoStaticPath
    /\ cyc = NoCycle

\* ------------------------------------------------------------- transport
\* The listeners that exist: a loop owns one from listener_builder().create()
\* until receive_messages returns.
HasListener(c) == lpc[c] \in {"check", "enter", "wait", "drain"}

\* Notifier::notify(): the event id is marked on every existing listener.
Fire(ev) == [c \in Callers |-> IF HasListener(c) THEN pend[c] \cup {ev} ELSE pend[c]]

\* A transport that admits a second subscriber next to the first.
SlotFree_two_subscribers == Cardinality({c \in Callers : sub[c]}) <= max_subscribers

\* subscriber_builder().create() finds a free slot.
SlotFree == Cardinality({c \in Callers : sub[c]}) < max_subscribers

\* Publisher send(): the sample is pushed to every connected subscriber.
Deliver(m) == [c \in Callers |-> IF sub[c] THEN Append(queue[c], m) ELSE queue[c]]

\* Outcomes of subscriber_builder().create(): the slot decides between Ok and
\* ExceedsMaxSupportedSubscribers; any other SubscriberCreateError may occur.
CreateOutcomes == {IF SlotFree THEN "ok" ELSE "exceeds", "err"}

\* A successful create(): the caller's Subscriber exists, its buffer is empty.
Acquire(c) ==
    /\ sub' = [sub EXCEPT ![c] = TRUE]
    /\ queue' = [queue EXCEPT ![c] = <<>>]

\* drop(subscriber): the slot is free again and the receive buffer is gone.
Release(c) ==
    /\ sub' = [sub EXCEPT ![c] = FALSE]
    /\ queue' = [queue EXCEPT ![c] = <<>>]

\* A call returns Ok(..) or Err(..): its local variables are gone.
Return(c, r) ==
    /\ pc' = [pc EXCEPT ![c] = "done"]
    /\ result' = [result EXCEPT ![c] = r]
    /\ loc' = [loc EXCEPT ![c] = NoLocals]

\* The call goes on at position `at` with the locals `l`.
Goto(c, at, l) ==
    /\ pc' = [pc EXCEPT ![c] = at]
    /\ loc' = [loc EXCEPT ![c] = l]
    /\ UNCHANGED result

\* ---------------------------------------------------------- provisioning
\* What build_serice_ (open_or_create with max_subscribers(1)) can return:
\* the channel, the error of a channel that exists with another shape, or
\* another error.
ServiceOutcomes == {"ok", "incompatible", "err"}

\* What Node::list reports for a node: alive, or dead with the result of
\* remove_stale_resources on it.
NodeStates == {"alive", "dead_ok", "dead_err"}

NodeLists ==
    UNION {[1..n -> NodeStates] : n \in 0..MaxNodes}

\* Lines 143-156: the sweep over the node list.  Dead nodes are reclaimed; a
\* failed reclaim and a failed list are logged.  The value is the number of
\* warnings and errors logged.
sweep(list_ok, nodes) ==
    Cardinality({i \in 1..Len(nodes) : nodes[i] = "dead_err"})
        + (IF list_ok THEN 0 ELSE 1)

\* build_service that returns an error when the sweep logged one.
build_service_strict(first, warned, second) ==
    IF first = "ok"
    THEN [result |-> "ok", attempts |-> 1, sweeps |-> 0, warned |-> 0]
    ELSE [result |-> IF warned > 0 THEN "err" ELSE second,
          attempts |-> 2, sweeps |-> 1, warned |-> warned]

\* build_service that surfaces the error of another shape without a sweep.
build_service_shape_aware(first, warned, second) ==
    IF first \in {"ok", "incompatible"}
    THEN [result |-> first, attempts |-> 1, sweeps |-> 0, warned |-> 0]
    ELSE [result |-> second, attempts |-> 2, sweeps |-> 1, warned |-> warned]

\* Lines 135-160, build_service: the first open_or_create, and on any error of
\* it (or_else(|_| ...)) the sweep followed by a second open_or_create whose
\* result is returned.  warned: what the sweep logged.
build_service(first, warned, second) ==
    IF first = "ok"
    THEN [result |-> "ok", attempts |-> 1, sweeps |-> 0, warned |-> 0]
    ELSE [result |-> second, attempts |-> 2, sweeps |-> 1, warned |-> warned]

\* Lines 307-312 / 382-387: names, node, data channel, event channel.
Provision(name_ok, node_ok, first, warned, second, event_ok) ==
    IF ~name_ok THEN "ErrName"
    ELSE IF ~node_ok THEN "ErrNode"
    ELSE IF build_service(first, warned, second).result # "ok" THEN "ErrService"
    ELSE IF ~event_ok THEN "ErrEventService"
    ELSE "ok"

ProvisionResults ==
    {Provision(n, d, f, sweep(l, ns), g, e) :
        n \in BOOLEAN, d \in BOOLEAN, f \in ServiceOutcomes,
        l \in BOOLEAN, ns \in NodeLists, g \in ServiceOutcomes, e \in BOOLEAN}

\* ------------------------------------------------------- single_process_
\* single_process_ with the subscriber created before the event channel and
\* kept when the event channel fails.
single_process_subscriber_first(c) ==
    /\ pc[c] = "idle"
    /\ kind' = [kind EXCEPT ![c] = "single_process"]
    /\ \E p \in ProvisionResults :
        IF p # "ok"
        THEN /\ Return(c, p)
             /\ IF p = "ErrEventService" /\ SlotFree
                THEN Acquire(c)
                ELSE UNCHANGED <<sub, queue>>
        ELSE \E o \in CreateOutcomes :
                CASE o = "ok" ->
                        /\ Acquire(c)
                        /\ Goto(c, "spawn", [loc[c] EXCEPT !.attempts = 1])
                  [] o = "exceeds" ->
                        /\ Goto(c, "publish", [loc[c] EXCEPT !.attempts = 1])
                        /\ UNCHANGED <<sub, queue>>
                  [] OTHER ->
                        /\ Return(c, "ErrSubscriberCreate")
                        /\ UNCHANGED <<sub, queue>>
    /\ UNCHANGED <<loopVars, handleVars, sendVars>>

\* Lines 382-399: provisioning, then the creation attempt and its three arms.
single_process_(c) ==
    /\ pc[c] = "idle"
    /\ kind' = [kind EXCEPT ![c] = "single_process"]
    /\ \E p \in ProvisionResults :
        IF p # "ok"
        THEN /\ Return(c, p)
             /\ UNCHANGED <<sub, queue>>
        ELSE \E o \in CreateOutcomes :
                CASE o = "ok" ->
                        /\ Acquire(c)
                        /\ Goto(c, "spawn", [loc[c] EXCEPT !.attempts = 1])
                  [] o = "exceeds" ->
                        /\ Goto(c, "publish", [loc[c] EXCEPT !.attempts = 1])
                        /\ UNCHANGED <<sub, queue>>
                  [] OTHER ->
                        /\ Return(c, "ErrSubscriberCreate")
                        /\ UNCHANGED <<sub, queue>>
    /\ UNCHANGED <<loopVars, handleVars, sendVars>>

\* ------------------------------------------------- SubscriberHandle::new
\* A load followed by a store of the same value: the increment is lost.
fetch_add_lost(counter) == counter

\* Line 47: COUNTER.fetch_add(1, Relaxed) leaves the counter one higher.
fetch_add(counter) == counter + 1

\* ---------------------------------------------- create_subscriber_thread
\* Lines 188-191, 223-224: SubscriberHandle::new, then thread spawn.  A failed
\* spawn drops the closure, and with it the subscriber and the Arc.
create_subscriber_thread(c) ==
    /\ pc[c] = "spawn"
    /\ subscriber_id' = [subscriber_id EXCEPT ![c] = COUNTER[ProcOf(c)]]
    /\ COUNTER' = [COUNTER EXCEPT ![ProcOf(c)] = fetch_add(@)]
    /\ \E spawned \in BOOLEAN :
        IF spawned
        THEN /\ lpc' = [lpc EXCEPT ![c] = "start"]
             /\ keep_alive' = [keep_alive EXCEPT ![c] = TRUE]
             /\ strong' = [strong EXCEPT ![c] = TRUE]
             /\ Return(c, IF kind[c] = "single_process" THEN "Continue" ELSE "Handle")
             /\ UNCHANGED <<sub, queue>>
        ELSE /\ Release(c)
             /\ Return(c, "ErrSpawn")
             /\ UNCHANGED <<lpc, keep_alive, strong>>
    /\ UNCHANGED <<kind, pend, handled, close_called, ended_by, waits_after_close, sendVars>>

\* ---------------------------------------------------------- publish_input
\* Lines 243-251: publisher, notifier, loan, input(), send.  The message a
\* caller sends is named by the caller.
PublishSteps == {"ErrPublisherCreate", "ErrNotifierCreate", "ErrLoan", "ErrInput", "ErrSend", "ok"}

publish_send(c) ==
    /\ pc[c] = "publish"
    /\ \E o \in PublishSteps :
        IF o = "ok"
        THEN /\ queue' = Deliver(c)
             /\ sent' = [sent EXCEPT ![c] = TRUE]
             /\ sent_to' = [sent_to EXCEPT ![c] = {a \in Callers : sub[a]}]
             /\ Goto(c, "notify", loc[c])
        ELSE /\ Return(c, o)
             /\ UNCHANGED <<queue, sendVars>>
    /\ UNCHANGED <<kind, sub, loopVars, handleVars>>

\* publish_notify with the 50 ms wait after a failed Notify as well.
publish_notify_same_wait(c) ==
    /\ pc[c] = "notify"
    /\ \E notified \in BOOLEAN :
        /\ pend' = IF notified THEN Fire(NOTIFY_EVENT) ELSE pend
        /\ Goto(c, "settle", [loc[c] EXCEPT !.settle = SettleShortMs])
    /\ UNCHANGED <<kind, sub, queue, lpc, keep_alive, strong, handled, ended_by,
                   waits_after_close, handleVars, sendVars>>

\* publish_notify with the Notify failure returned through `?`.
publish_notify_escalating(c) ==
    /\ pc[c] = "notify"
    /\ \E notified \in BOOLEAN :
        IF notified
        THEN /\ pend' = Fire(NOTIFY_EVENT)
             /\ Goto(c, "settle", [loc[c] EXCEPT !.settle = SettleShortMs])
        ELSE /\ pend' = pend
             /\ Return(c, "ErrNotify")
    /\ UNCHANGED <<kind, sub, queue, lpc, keep_alive, strong, handled, ended_by,
                   waits_after_close, handleVars, sendVars>>

\* publish_notify firing the Replace signal in place of the Notify signal.
publish_notify_replacing(c) ==
    /\ pc[c] = "notify"
    /\ \E notified \in BOOLEAN :
        IF notified
        THEN /\ pend' = Fire(REPLACE_EVENT)
             /\ Goto(c, "settle", [loc[c] EXCEPT !.settle = SettleShortMs])
        ELSE /\ pend' = pend
             /\ Goto(c, "settle", [loc[c] EXCEPT !.settle = SettleLongMs])
    /\ UNCHANGED <<kind, sub, queue, lpc, keep_alive, strong, handled, ended_by,
                   waits_after_close, handleVars, sendVars>>

\* Lines 253-258: notify; the duration of the wait depends on its result.
publish_notify(c) ==
    /\ pc[c] = "notify"
    /\ \E notified \in BOOLEAN :
        IF notified
        THEN /\ pend' = Fire(NOTIFY_EVENT)
             /\ Goto(c, "settle", [loc[c] EXCEPT !.settle = SettleShortMs])
        ELSE /\ pend' = pend
             /\ Goto(c, "settle", [loc[c] EXCEPT !.settle = SettleLongMs])
    /\ UNCHANGED <<kind, sub, queue, lpc, keep_alive, strong, handled, ended_by,
                   waits_after_close, handleVars, sendVars>>

\* publish_settle with the wait's failure returned through `?`.
publish_settle_escalating(c) ==
    /\ pc[c] = "settle"
    /\ \E wait_ok \in BOOLEAN :
        IF wait_ok THEN Return(c, "Break") ELSE Return(c, "ErrWait")
    /\ UNCHANGED <<kind, sub, queue, loopVars, handleVars, sendVars>>

\* Lines 255-262: node.wait returns, Ok or Err; either way the result is Ok(()),
\* and single_process_ returns Ok(ControlFlow::Break(())) (line 396).
publish_settle(c) ==
    /\ pc[c] = "settle"
    /\ \E wait_ok \in BOOLEAN : Return(c, "Break")
    /\ UNCHANGED <<kind, sub, queue, loopVars, handleVars, sendVars>>

\* ------------------------------------------------------- subscribe_only_
\* subscribe_only_ that gives up at once on an occupied slot when the timeout
\* is zero.
subscribe_only_zero_gives_up(c, t) ==
    /\ pc[c] = "idle"
    /\ kind' = [kind EXCEPT ![c] = "subscribe_only"]
    /\ \E p \in ProvisionResults :
        IF p # "ok"
        THEN /\ Return(c, p)
             /\ UNCHANGED <<sub, queue>>
        ELSE \E o \in CreateOutcomes :
                CASE o = "ok" ->
                        /\ Acquire(c)
                        /\ Goto(c, "spawn", [loc[c] EXCEPT !.timeout = t, !.attempts = 1])
                  [] o = "exceeds" ->
                        /\ \E notifier_ok \in BOOLEAN :
                            IF t = 0
                            THEN Return(c, "Timeout")
                            ELSE IF notifier_ok
                            THEN Goto(c, "signal",
                                      [loc[c] EXCEPT !.timeout = t, !.attempts = 1,
                                                     !.elapsed = 0,
                                                     !.max_sleep = InitialSleepMs])
                            ELSE Return(c, "ErrNotifierCreate")
                        /\ UNCHANGED <<sub, queue>>
                  [] OTHER ->
                        /\ Return(c, "ErrSubscriberCreate")
                        /\ UNCHANGED <<sub, queue>>
    /\ UNCHANGED <<loopVars, handleVars, sendVars>>

\* Lines 307-324: provisioning, the first creation attempt, and on
\* ExceedsMaxSupportedSubscribers the entry of the loop: timeout_instant,
\* max_sleep = 0.002 and the Replace notifier.  t: the timeout parameter.
subscribe_only_(c, t) ==
    /\ pc[c] = "idle"
    /\ kind' = [kind EXCEPT ![c] = "subscribe_only"]
    /\ \E p \in ProvisionResults :
        IF p # "ok"
        THEN /\ Return(c, p)
             /\ UNCHANGED <<sub, queue>>
        ELSE \E o \in CreateOutcomes :
                CASE o = "ok" ->
                        /\ Acquire(c)
                        /\ Goto(c, "spawn", [loc[c] EXCEPT !.timeout = t, !.attempts = 1])
                  [] o = "exceeds" ->
                        /\ \E notifier_ok \in BOOLEAN :
                            IF notifier_ok
                            THEN Goto(c, "signal",
                                      [loc[c] EXCEPT !.timeout = t, !.attempts = 1,
                                                     !.elapsed = 0,
                                                     !.max_sleep = InitialSleepMs])
                            ELSE Return(c, "ErrNotifierCreate")
                        /\ UNCHANGED <<sub, queue>>
                  [] OTHER ->
                        /\ Return(c, "ErrSubscriberCreate")
                        /\ UNCHANGED <<sub, queue>>
    /\ UNCHANGED <<loopVars, handleVars, sendVars>>

\* The doubling of line 326 without the cap.
next_max_sleep_uncapped(b) == b * 2

\* Line 326: the bound doubles, capped at 0.1 s, before it is used.
next_max_sleep(b) == Min(SleepCapMs, b * 2)

\* acquire_signal with the failure of notify() only logged.
acquire_signal_lenient(c) ==
    /\ pc[c] = "signal"
    /\ \E notified \in BOOLEAN :
        /\ pend' = IF notified THEN Fire(REPLACE_EVENT) ELSE pend
        /\ Goto(c, "wait",
                [loc[c] EXCEPT !.max_sleep = next_max_sleep(@),
                               !.replaces = Min(@ + 1, MaxCount),
                               !.hit = IF loc[c].replaces = 0
                                       THEN notified /\ \E a \in Callers : sub[a] /\ HasListener(a)
                                       ELSE @])
    /\ UNCHANGED <<kind, sub, queue, lpc, keep_alive, strong, handled, ended_by,
                   waits_after_close, handleVars, sendVars>>

\* Lines 326-327: raise the bound, fire the Replace signal.
acquire_signal(c) ==
    /\ pc[c] = "signal"
    /\ \E notified \in BOOLEAN :
        IF notified
        THEN /\ pend' = Fire(REPLACE_EVENT)
             /\ Goto(c, "wait",
                     [loc[c] EXCEPT !.max_sleep = next_max_sleep(@),
                                    !.replaces = Min(@ + 1, MaxCount),
                                    !.hit = IF loc[c].replaces = 0
                                            THEN \E a \in Callers : sub[a] /\ HasListener(a)
                                            ELSE @])
        ELSE /\ Return(c, "ErrNotify")
             /\ UNCHANGED pend
    /\ UNCHANGED <<kind, sub, queue, lpc, keep_alive, strong, handled, ended_by,
                   waits_after_close, handleVars, sendVars>>

\* Lines 328-330: node.wait for a random duration d in [0, max_sleep]; a
\* NodeWaitFailure is returned through `?`.
acquire_wait(c, d) ==
    /\ pc[c] = "wait"
    /\ d \in WaitChoices(loc[c].max_sleep)
    /\ \E wait_ok \in BOOLEAN :
        IF wait_ok
        THEN Goto(c, "retry", [loc[c] EXCEPT !.elapsed = @ + d])
        ELSE Return(c, "ErrWait")
    /\ UNCHANGED <<kind, sub, queue, loopVars, handleVars, sendVars>>

\* The check of line 337 with >= in place of >.
timed_out_inclusive(l) == l.elapsed >= l.timeout

\* Line 337: Instant::now() > timeout_instant.
timed_out(l) == l.elapsed > l.timeout

\* acquire_retry with the timeout checked after every failed creation attempt.
acquire_retry_timeout_any(c) ==
    /\ pc[c] = "retry"
    /\ \E o \in CreateOutcomes :
        CASE o = "ok" ->
                /\ Acquire(c)
                /\ Goto(c, "spawn", [loc[c] EXCEPT !.attempts = Min(@ + 1, MaxCount)])
          [] o = "exceeds" ->
                /\ IF timed_out(loc[c])
                   THEN Return(c, "Timeout")
                   ELSE Goto(c, "signal", [loc[c] EXCEPT !.attempts = Min(@ + 1, MaxCount)])
                /\ UNCHANGED <<sub, queue>>
          [] OTHER ->
                /\ IF timed_out(loc[c])
                   THEN Return(c, "Timeout")
                   ELSE Return(c, "ErrSubscriberCreate")
                /\ UNCHANGED <<sub, queue>>
    /\ UNCHANGED <<kind, loopVars, handleVars, sendVars>>

\* acquire_retry with the timeout checked before the creation attempt.
acquire_retry_timeout_first(c) ==
    /\ pc[c] = "retry"
    /\ IF timed_out(loc[c])
       THEN /\ Return(c, "Timeout")
            /\ UNCHANGED <<sub, queue>>
       ELSE \E o \in CreateOutcomes :
            CASE o = "ok" ->
                    /\ Acquire(c)
                    /\ Goto(c, "spawn", [loc[c] EXCEPT !.attempts = Min(@ + 1, MaxCount)])
              [] o = "exceeds" ->
                    /\ Goto(c, "signal", [loc[c] EXCEPT !.attempts = Min(@ + 1, MaxCount)])
                    /\ UNCHANGED <<sub, queue>>
              [] OTHER ->
                    /\ Return(c, "ErrSubscriberCreate")
                    /\ UNCHANGED <<sub, queue>>
    /\ UNCHANGED <<kind, loopVars, handleVars, sendVars>>

\* Lines 332-343: the next creation attempt and its three arms.
acquire_retry(c) ==
    /\ pc[c] = "retry"
    /\ \E o \in CreateOutcomes :
        CASE o = "ok" ->
                /\ Acquire(c)
                /\ Goto(c, "spawn", [loc[c] EXCEPT !.attempts = Min(@ + 1, MaxCount)])
          [] o = "exceeds" ->
                /\ IF timed_out(loc[c])
                   THEN Return(c, "Timeout")
                   ELSE Goto(c, "signal", [loc[c] EXCEPT !.attempts = Min(@ + 1, MaxCount)])
                /\ UNCHANGED <<sub, queue>>
          [] OTHER ->
                /\ Return(c, "ErrSubscriberCreate")
                /\ UNCHANGED <<sub, queue>>
    /\ UNCHANGED <<kind, loopVars, handleVars, sendVars>>

\* ------------------------------------------------------- Subscriber Loop
\* LeaveLoop with the subscriber kept.
LeaveLoop_keeping_subscriber(c, why) ==
    /\ UNCHANGED <<sub, queue>>
    /\ lpc' = [lpc EXCEPT ![c] = "closing"]
    /\ ended_by' = [ended_by EXCEPT ![c] = why]
    /\ pend' = [pend EXCEPT ![c] = {}]

\* receive_messages returns: the while loop ended for the reason `why`, the
\* listener and the subscriber are dropped.
LeaveLoop(c, why) ==
    /\ Release(c)
    /\ lpc' = [lpc EXCEPT ![c] = "closing"]
    /\ ended_by' = [ended_by EXCEPT ![c] = why]
    /\ pend' = [pend EXCEPT ![c] = {}]

\* Line 193: listener_builder().create()?.
loop_listener(c) ==
    /\ lpc[c] = "start"
    /\ \E created \in BOOLEAN :
        IF created
        THEN /\ lpc' = [lpc EXCEPT ![c] = "check"]
             /\ UNCHANGED <<sub, queue, ended_by, pend>>
        ELSE LeaveLoop(c, "listener")
    /\ UNCHANGED <<callerVars, keep_alive, strong, handled,
                   waits_after_close, handleVars, sendVars>>

\* loop_check with a loop condition that is always true.
loop_check_always_enter(c) ==
    /\ lpc[c] = "check"
    /\ lpc' = [lpc EXCEPT ![c] = "enter"]
    /\ UNCHANGED <<sub, queue, ended_by, pend>>
    /\ UNCHANGED <<callerVars, keep_alive, strong, handled,
                   waits_after_close, handleVars, sendVars>>

\* Line 194: keep_alive.load(Relaxed) at the top of the while loop; on false
\* the loop ends, lines 212-213.
loop_check(c) ==
    /\ lpc[c] = "check"
    /\ IF keep_alive[c]
       THEN /\ lpc' = [lpc EXCEPT ![c] = "enter"]
            /\ UNCHANGED <<sub, queue, ended_by, pend>>
       ELSE LeaveLoop(c, "keep_alive")
    /\ UNCHANGED <<callerVars, keep_alive, strong, handled,
                   waits_after_close, handleVars, sendVars>>

\* Lines 195-204: timed_wait_all is entered with a timeout of 200 ms.
loop_wait_start(c) ==
    /\ lpc[c] = "enter"
    /\ lpc' = [lpc EXCEPT ![c] = "wait"]
    /\ waits_after_close' =
          [waits_after_close EXCEPT ![c] = IF close_called[c] THEN Min(@ + 1, MaxCount) ELSE @]
    /\ UNCHANGED <<callerVars, sub, queue, keep_alive, strong,
                   pend, handled, ended_by, handleVars, sendVars>>

\* A callback that does not react to REPLACE_EVENT.
on_events_ignoring(events, flag) == flag

\* A callback that sets the flag back to true on a Notify signal.
on_events_reviving(events, flag) ==
    IF REPLACE_EVENT \in events THEN FALSE ELSE (NOTIFY_EVENT \in events \/ flag)

\* Lines 197-202: the callback of timed_wait_all, run for every fired event.
on_events(events, flag) == IF REPLACE_EVENT \in events THEN FALSE ELSE flag

\* Lines 196-205: timed_wait_all returns Ok because events were fired.
loop_wake(c) ==
    /\ lpc[c] = "wait"
    /\ pend[c] # {}
    /\ keep_alive' = [keep_alive EXCEPT ![c] = on_events(pend[c], @)]
    /\ pend' = [pend EXCEPT ![c] = {}]
    /\ lpc' = [lpc EXCEPT ![c] = "drain"]
    /\ UNCHANGED <<callerVars, sub, queue, strong, handled,
                   ended_by, waits_after_close, handleVars, sendVars>>

\* loop_timeout with the body of the while loop skipped.
loop_timeout_without_drain(c) ==
    /\ lpc[c] = "wait"
    /\ pend[c] = {}
    /\ lpc' = [lpc EXCEPT ![c] = "check"]
    /\ UNCHANGED <<callerVars, sub, queue, keep_alive, strong,
                   pend, handled, ended_by, waits_after_close, handleVars, sendVars>>

\* Lines 196-205: timed_wait_all returns Ok because the 200 ms passed.
loop_timeout(c) ==
    /\ lpc[c] = "wait"
    /\ pend[c] = {}
    /\ lpc' = [lpc EXCEPT ![c] = "drain"]
    /\ UNCHANGED <<callerVars, sub, queue, keep_alive, strong,
                   pend, handled, ended_by, waits_after_close, handleVars, sendVars>>

\* Line 205: timed_wait_all returns Err; .is_ok() is false and the loop ends.
loop_wait_fail(c) ==
    /\ lpc[c] = "wait"
    /\ LeaveLoop(c, "wait")
    /\ UNCHANGED <<callerVars, keep_alive, strong, handled,
                   waits_after_close, handleVars, sendVars>>

\* loop_receive with a receive() that leaves the sample in the buffer.
loop_receive_peeking(c) ==
    /\ lpc[c] = "drain"
    /\ \/ /\ queue[c] # <<>>
          /\ handled' = [handled EXCEPT ![c] = Append(@, Head(queue[c]))]
          /\ UNCHANGED <<sub, queue, lpc, ended_by, pend>>
       \/ /\ queue[c] = <<>>
          /\ lpc' = [lpc EXCEPT ![c] = "check"]
          /\ UNCHANGED <<sub, queue, handled, ended_by, pend>>
    /\ UNCHANGED <<callerVars, keep_alive, strong,
                   waits_after_close, handleVars, sendVars>>

\* loop_receive that notes the handler's error and goes on with the drain.
loop_receive_deferring(c) ==
    /\ lpc[c] = "drain"
    /\ \/ /\ queue[c] # <<>>
          /\ handled' = [handled EXCEPT ![c] = Append(@, Head(queue[c]))]
          /\ queue' = [queue EXCEPT ![c] = Tail(@)]
          /\ \E handler_ok \in BOOLEAN :
               IF handler_ok
               THEN UNCHANGED <<sub, lpc, ended_by, pend>>
               ELSE /\ ended_by' = [ended_by EXCEPT ![c] = "handler"]
                    /\ UNCHANGED <<sub, lpc, pend>>
       \/ /\ queue[c] = <<>>
          /\ lpc' = [lpc EXCEPT ![c] = "check"]
          /\ UNCHANGED <<sub, queue, handled, ended_by, pend>>
       \/ /\ LeaveLoop(c, "receive")
          /\ UNCHANGED handled
    /\ UNCHANGED <<callerVars, keep_alive, strong,
                   waits_after_close, handleVars, sendVars>>

\* Lines 207-210: subscriber.receive()? and receive(&message)?.
loop_receive(c) ==
    /\ lpc[c] = "drain"
    /\ \/ /\ queue[c] # <<>>
          /\ handled' = [handled EXCEPT ![c] = Append(@, Head(queue[c]))]
          /\ \E handler_ok \in BOOLEAN :
               IF handler_ok
               THEN /\ queue' = [queue EXCEPT ![c] = Tail(@)]
                    /\ UNCHANGED <<sub, lpc, ended_by, pend>>
               ELSE LeaveLoop(c, "handler")
       \/ /\ queue[c] = <<>>
          /\ lpc' = [lpc EXCEPT ![c] = "check"]
          /\ UNCHANGED <<sub, queue, handled, ended_by, pend>>
       \/ /\ LeaveLoop(c, "receive")
          /\ UNCHANGED handled
    /\ UNCHANGED <<callerVars, keep_alive, strong,
                   waits_after_close, handleVars, sendVars>>

\* loop_exit without the store of line 221 and with the Arc kept alive.
loop_exit_keeping_flag(c) ==
    /\ lpc[c] = "closing"
    /\ lpc' = [lpc EXCEPT ![c] = "exited"]
    /\ handled' = [handled EXCEPT ![c] = <<>>]
    /\ ended_by' = [ended_by EXCEPT ![c] = "none"]
    /\ waits_after_close' = [waits_after_close EXCEPT ![c] = 0]
    /\ UNCHANGED <<callerVars, sub, queue, pend, keep_alive, strong,
                   handleVars, sendVars>>

\* Lines 216-222: the error is logged, keep_alive.store(false), and the thread
\* ends, which drops the Arc, the handler and everything else the closure owned.
loop_exit(c) ==
    /\ lpc[c] = "closing"
    /\ keep_alive' = [keep_alive EXCEPT ![c] = FALSE]
    /\ strong' = [strong EXCEPT ![c] = FALSE]
    /\ lpc' = [lpc EXCEPT ![c] = "exited"]
    /\ handled' = [handled EXCEPT ![c] = <<>>]
    /\ ended_by' = [ended_by EXCEPT ![c] = "none"]
    /\ waits_after_close' = [waits_after_close EXCEPT ![c] = 0]
    /\ UNCHANGED <<callerVars, sub, queue, pend, handleVars, sendVars>>

\* ------------------------------------------------------- SubscriberHandle
\* A caller holds a handle once its call returned one.
HasHandle(c) == result[c] \in {"Continue", "Handle"}

\* Weak::upgrade succeeds while the Arc exists.
upgrade(c) == strong[c]

\* Lines 61-67.
is_closed(c) == IF upgrade(c) THEN ~keep_alive[c] ELSE TRUE

\* close() that stores nothing.
close_without_store(c) ==
    /\ HasHandle(c)
    /\ close_called' = [close_called EXCEPT ![c] = TRUE]
    /\ UNCHANGED <<callerVars, sub, queue, lpc, keep_alive, strong, pend,
                   handled, ended_by, waits_after_close, subscriber_id, COUNTER,
                   sendVars>>

\* Lines 70-74.
close(c) ==
    /\ HasHandle(c)
    /\ keep_alive' = IF upgrade(c) THEN [keep_alive EXCEPT ![c] = FALSE] ELSE keep_alive
    /\ close_called' = [close_called EXCEPT ![c] = TRUE]
    /\ UNCHANGED <<callerVars, sub, queue, lpc, strong, pend,
                   handled, ended_by, waits_after_close, subscriber_id, COUNTER,
                   sendVars>>

\* Lines 35-41 and 52-57: the handle returned to caller c; keep_alive is the
\* Weak reference, which points at the flag of c's loop.
SubscriberHandle(c) == [subscriber_id |-> subscriber_id[c], keep_alive |-> c]

\* Line 34: #[derive(Clone)] copies both fields.
clone(h) == [subscriber_id |-> h.subscriber_id, keep_alive |-> h.keep_alive]

\* Lines 83-87: PartialEq compares subscriber_id.
eq(a, b) == a.subscriber_id = b.subscriber_id

\* ------------------------------------------------------------------ Next
Next ==
    \/ \E c \in General : single_process_(c) /\ UNCHANGED pureVars
    \/ \E c \in Acquirers : \E t \in Timeouts : subscribe_only_(c, t) /\ UNCHANGED pureVars
    \/ \E c \in General : create_subscriber_thread(c) /\ UNCHANGED pureVars
    \/ \E c \in General : publish_send(c) /\ UNCHANGED pureVars
    \/ \E c \in General : publish_notify(c) /\ UNCHANGED pureVars
    \/ \E c \in General : publish_settle(c) /\ UNCHANGED pureVars
    \/ \E c \in General : acquire_signal(c) /\ UNCHANGED pureVars
    \/ \E c \in General : \E d \in WaitChoices(loc[c].max_sleep) : acquire_wait(c, d) /\ UNCHANGED pureVars
    \/ \E c \in General : acquire_retry(c) /\ UNCHANGED pureVars
    \/ \E c \in General : loop_listener(c) /\ UNCHANGED pureVars
    \/ \E c \in General : loop_check(c) /\ UNCHANGED pureVars
    \/ \E c \in General : loop_wait_start(c) /\ UNCHANGED pureVars
    \/ \E c \in General : loop_wake(c) /\ UNCHANGED pureVars
    \/ \E c \in General : loop_timeout(c) /\ UNCHANGED pureVars
    \/ \E c \in General : loop_wait_fail(c) /\ UNCHANGED pureVars
    \/ \E c \in General : loop_receive(c) /\ UNCHANGED pureVars
    \/ \E c \in General : loop_exit(c) /\ UNCHANGED pureVars
    \/ \E c \in General : close(c) /\ UNCHANGED pureVars

Spec == Init /\ [][Next]_vars


\* ------------------------------------------------------------- scheduling
\* The steps of the thread that made call c.
caller_step(c) ==
    \/ create_subscriber_thread(c) /\ UNCHANGED pureVars
    \/ publish_send(c) /\ UNCHANGED pureVars
    \/ publish_notify(c) /\ UNCHANGED pureVars
    \/ publish_settle(c) /\ UNCHANGED pureVars
    \/ acquire_signal(c) /\ UNCHANGED pureVars
    \/ \E d \in WaitChoices(loc[c].max_sleep) : acquire_wait(c, d) /\ UNCHANGED pureVars
    \/ acquire_retry(c) /\ UNCHANGED pureVars

\* The steps of the Subscriber Loop thread of c that the scheduler owes it: a
\* failing wait is the transport's choice, not the scheduler's.
loop_step(c) ==
    \/ loop_listener(c) /\ UNCHANGED pureVars
    \/ loop_check(c) /\ UNCHANGED pureVars
    \/ loop_wait_start(c) /\ UNCHANGED pureVars
    \/ loop_wake(c) /\ UNCHANGED pureVars
    \/ loop_timeout(c) /\ UNCHANGED pureVars
    \/ loop_receive(c) /\ UNCHANGED pureVars
    \/ loop_exit(c) /\ UNCHANGED pureVars

\* Every started thread keeps being scheduled.
Fairness ==
    \A c \in General : WF_vars(caller_step(c)) /\ WF_vars(loop_step(c))

FairSpec == Spec /\ Fairness

\* Three single_process callers and nothing else: the first to come becomes
\* the subscriber, the others delegate to it, so that its buffer can hold more
\* than one message.
NextDelegate ==
    \/ \E c \in Callers : single_process_(c) /\ UNCHANGED pureVars
    \/ \E c \in Callers : create_subscriber_thread(c) /\ UNCHANGED pureVars
    \/ \E c \in Callers : publish_send(c) /\ UNCHANGED pureVars
    \/ \E c \in Callers : publish_notify(c) /\ UNCHANGED pureVars
    \/ \E c \in Callers : publish_settle(c) /\ UNCHANGED pureVars
    \/ \E c \in Callers : loop_listener(c) /\ UNCHANGED pureVars
    \/ \E c \in Callers : loop_check(c) /\ UNCHANGED pureVars
    \/ \E c \in Callers : loop_wait_start(c) /\ UNCHANGED pureVars
    \/ \E c \in Callers : loop_wake(c) /\ UNCHANGED pureVars
    \/ \E c \in Callers : loop_timeout(c) /\ UNCHANGED pureVars
    \/ \E c \in Callers : loop_wait_fail(c) /\ UNCHANGED pureVars
    \/ \E c \in Callers : loop_receive(c) /\ UNCHANGED pureVars
    \/ \E c \in Callers : loop_exit(c) /\ UNCHANGED pureVars

SpecDelegate ==
    Init /\ [][NextDelegate]_vars
         /\ \A c \in Callers : WF_vars(caller_step(c)) /\ WF_vars(loop_step(c))

\* A thread of c has a step to take that needs no time to pass: it is neither
\* blocked in a wait nor finished.
Busy(c) ==
    \/ pc[c] \in {"spawn", "publish", "notify", "signal", "retry"}
    \/ lpc[c] \in {"start", "check", "enter", "drain", "closing"}
    \/ lpc[c] = "wait" /\ pend[c] # {}

\* Every thread is blocked in a wait, finished or not started.
Quiescent == \A c \in Callers : ~Busy(c)

\* Prompt scheduling: a wait of positive length ends only when no thread has a
\* step left to take, that is, the steps between waits take no time.
NextPrompt ==
    \/ \E c \in General : single_process_(c) /\ UNCHANGED pureVars
    \/ \E c \in Acquirers : subscribe_only_(c, DefaultTimeoutMs) /\ UNCHANGED pureVars
    \/ \E c \in General : create_subscriber_thread(c) /\ UNCHANGED pureVars
    \/ \E c \in General : publish_send(c) /\ UNCHANGED pureVars
    \/ \E c \in General : publish_notify(c) /\ UNCHANGED pureVars
    \/ \E c \in General : acquire_signal(c) /\ UNCHANGED pureVars
    \/ \E c \in General : acquire_wait(c, 0) /\ UNCHANGED pureVars
    \/ \E c \in General : acquire_retry(c) /\ UNCHANGED pureVars
    \/ \E c \in General : loop_listener(c) /\ UNCHANGED pureVars
    \/ \E c \in General : loop_check(c) /\ UNCHANGED pureVars
    \/ \E c \in General : loop_wait_start(c) /\ UNCHANGED pureVars
    \/ \E c \in General : loop_wake(c) /\ UNCHANGED pureVars
    \/ \E c \in General : loop_wait_fail(c) /\ UNCHANGED pureVars
    \/ \E c \in General : loop_receive(c) /\ UNCHANGED pureVars
    \/ \E c \in General : loop_exit(c) /\ UNCHANGED pureVars
    \/ \E c \in General : close(c) /\ UNCHANGED pureVars
    \/ Quiescent /\ \E c \in General : acquire_wait(c, loc[c].max_sleep) /\ UNCHANGED pureVars
    \/ Quiescent /\ \E c \in General : publish_settle(c) /\ UNCHANGED pureVars
    \/ Quiescent /\ \E c \in General : loop_timeout(c) /\ UNCHANGED pureVars

\* The threads' steps under prompt scheduling.
prompt_step(c) ==
    \/ create_subscriber_thread(c) /\ UNCHANGED pureVars
    \/ publish_send(c) /\ UNCHANGED pureVars
    \/ publish_notify(c) /\ UNCHANGED pureVars
    \/ acquire_signal(c) /\ UNCHANGED pureVars
    \/ acquire_wait(c, 0) /\ UNCHANGED pureVars
    \/ acquire_retry(c) /\ UNCHANGED pureVars
    \/ loop_listener(c) /\ UNCHANGED pureVars
    \/ loop_check(c) /\ UNCHANGED pureVars
    \/ loop_wait_start(c) /\ UNCHANGED pureVars
    \/ loop_wake(c) /\ UNCHANGED pureVars
    \/ loop_receive(c) /\ UNCHANGED pureVars
    \/ loop_exit(c) /\ UNCHANGED pureVars
    \/ Quiescent /\ acquire_wait(c, loc[c].max_sleep) /\ UNCHANGED pureVars
    \/ Quiescent /\ publish_settle(c) /\ UNCHANGED pureVars
    \/ Quiescent /\ loop_timeout(c) /\ UNCHANGED pureVars

SpecPrompt ==
    Init /\ [][NextPrompt]_vars /\ \A c \in General : WF_vars(prompt_step(c))


\* ------------------------------------------------------ race of acquirers
\* The threads that call subscribe_only in the race.
Racers == Callers \ {1}

\* The channel is occupied.
Occupied == \E a \in Callers : sub[a]

\* The first thread calls single_process; the other threads call
\* subscribe_only, with the timeout t, once the channel is occupied; nobody
\* calls close().
NextRace ==
    \/ single_process_(1) /\ UNCHANGED pureVars
    \/ \E c \in Racers : \E t \in Timeouts :
          Occupied /\ subscribe_only_(c, t) /\ UNCHANGED pureVars
    \/ \E c \in Callers : create_subscriber_thread(c) /\ UNCHANGED pureVars
    \/ \E c \in Callers : acquire_signal(c) /\ UNCHANGED pureVars
    \/ \E c \in Callers : \E d \in WaitChoices(loc[c].max_sleep) : acquire_wait(c, d) /\ UNCHANGED pureVars
    \/ \E c \in Callers : acquire_retry(c) /\ UNCHANGED pureVars
    \/ \E c \in Callers : loop_listener(c) /\ UNCHANGED pureVars
    \/ \E c \in Callers : loop_check(c) /\ UNCHANGED pureVars
    \/ \E c \in Callers : loop_wait_start(c) /\ UNCHANGED pureVars
    \/ \E c \in Callers : loop_wake(c) /\ UNCHANGED pureVars
    \/ \E c \in Callers : loop_timeout(c) /\ UNCHANGED pureVars
    \/ \E c \in Callers : loop_wait_fail(c) /\ UNCHANGED pureVars
    \/ \E c \in Callers : loop_receive(c) /\ UNCHANGED pureVars
    \/ \E c \in Callers : loop_exit(c) /\ UNCHANGED pureVars

SpecRace ==
    Init /\ [][NextRace]_vars
         /\ \A c \in Callers : WF_vars(caller_step(c)) /\ WF_vars(loop_step(c))

\* ------------------------------------------------- Channel Provisioner
\* One run of lines 307-312 (the same as 382-387), step by step, for every
\* outcome of its calls into the transport.
ProvisionInputs ==
    {[NoProvision EXCEPT !.at = "names", !.name_ok = n, !.node_ok = d,
                         !.first = f, !.list_ok = l, !.nodes = ns,
                         !.second = g, !.event_ok = e] :
        n \in BOOLEAN, d \in BOOLEAN, f \in ServiceOutcomes,
        l \in BOOLEAN, ns \in NodeLists, g \in ServiceOutcomes, e \in BOOLEAN}

InitProvision ==
    /\ NoCalls
    /\ prov \in ProvisionInputs
    /\ sp = NoStaticPath
    /\ cyc = NoCycle

\* The run ends with the result r.
ProvisionDone(r) == prov' = [prov EXCEPT !.at = "done", !.result = r]

\* Lines 307-308: NodeName::new(..)? and ServiceName::new(..)?.
provision_names ==
    /\ prov.at = "names"
    /\ IF prov.name_ok
       THEN prov' = [prov EXCEPT !.at = "node"]
       ELSE ProvisionDone("ErrName")
    /\ UNCHANGED callVars

\* Line 310: build_node(..)?.
provision_node ==
    /\ prov.at = "node"
    /\ IF prov.node_ok
       THEN prov' = [prov EXCEPT !.at = "service"]
       ELSE ProvisionDone("ErrNode")
    /\ UNCHANGED callVars

\* Line 311: build_service(..)?.
provision_service ==
    /\ prov.at = "service"
    /\ LET r == build_service(prov.first, sweep(prov.list_ok, prov.nodes), prov.second)
       IN  prov' = [prov EXCEPT !.attempts = r.attempts,
                                !.sweeps = r.sweeps,
                                !.warned = r.warned,
                                !.error = IF r.result = "ok" THEN "none" ELSE r.result,
                                !.at = IF r.result = "ok" THEN "event" ELSE "done",
                                !.result = IF r.result = "ok" THEN "none" ELSE "ErrService"]
    /\ UNCHANGED callVars

\* Line 312: build_event_service(..)?, one open_or_create (lines 163-168).
provision_event ==
    /\ prov.at = "event"
    /\ prov' = [prov EXCEPT !.event_attempts = @ + 1,
                            !.at = "done",
                            !.result = IF prov.event_ok THEN "ok" ELSE "ErrEventService"]
    /\ UNCHANGED callVars

NextProvision ==
    \/ provision_names /\ UNCHANGED <<sp, cyc>>
    \/ provision_node /\ UNCHANGED <<sp, cyc>>
    \/ provision_service /\ UNCHANGED <<sp, cyc>>
    \/ provision_event /\ UNCHANGED <<sp, cyc>>

SpecProvision == InitProvision /\ [][NextProvision]_vars

\* ------------------------------------------------------------ StaticPath
\* The bytes paths are made of here: '/', 'a', and 0xFF, which no UTF-8 text
\* contains.
Bytes == {47, 97, 255}

Paths == UNION {[1..n -> Bytes] : n \in 0..MaxPathLen}

Platforms == {"unix", "windows"}

\* Line 84, value.to_str(): Some when the path is UTF-8 (here: all ASCII).
to_str_ok(bytes) == \A i \in 1..Len(bytes) : bytes[i] < 128

\* StaticVec::try_from that takes one element more than the capacity.
StaticVec_try_from_off_by_one(bytes) ==
    IF Len(bytes) <= N + 1
    THEN [ok |-> TRUE, len |-> Len(bytes),
          data |-> [i \in 1..N |-> IF i <= Len(bytes) THEN bytes[i] ELSE 0]]
    ELSE [ok |-> FALSE, len |-> 0, data |-> [i \in 1..N |-> 0]]

\* Line 92, StaticVec::<u8, N>::try_from(bytes): a vector of capacity N with
\* the bytes copied to its front, or an error when they do not fit.
StaticVec_try_from(bytes) ==
    IF Len(bytes) <= N
    THEN [ok |-> TRUE, len |-> Len(bytes),
          data |-> [i \in 1..N |-> IF i <= Len(bytes) THEN bytes[i] ELSE 0]]
    ELSE [ok |-> FALSE, len |-> 0, data |-> [i \in 1..N |-> 0]]

\* The whole storage of the vector in place of its initialised front.
as_slice_whole(data, len) == data

\* Lines 65 and 75, &value.data: the initialised front of the vector.
as_slice(data, len) == [i \in 1..len |-> data[i]]

\* Lines 82-98: TryFrom<&Path> for StaticPath<N>.
try_from ==
    /\ sp.at = "path"
    /\ IF sp.platform = "windows" /\ ~to_str_ok(sp.path)
       THEN sp' = [sp EXCEPT !.at = "failed",
                             !.error = [kind |-> "NotUtf8", at_most |-> 0, len |-> 0]]
       ELSE LET v == StaticVec_try_from(sp.path)
            IN  IF v.ok
                THEN sp' = [sp EXCEPT !.at = "built", !.data = v.data, !.len = v.len]
                ELSE sp' = [sp EXCEPT !.at = "failed",
                                      !.error = [kind |-> "TooLong", at_most |-> N,
                                                 len |-> Len(sp.path)]]
    /\ UNCHANGED <<callVars, prov, cyc>>

\* Lines 55-77: try_into_path, on unix Path::new(OsStr::from_bytes(..)), on
\* windows str::from_utf8(..) first.
try_into_path ==
    /\ sp.at = "built"
    /\ LET bytes == as_slice(sp.data, sp.len)
       IN  IF sp.platform = "windows" /\ ~to_str_ok(bytes)
           THEN sp' = [sp EXCEPT !.at = "failed_back",
                                 !.error = [kind |-> "IntoNotUtf8", at_most |-> 0, len |-> 0]]
           ELSE sp' = [sp EXCEPT !.at = "back", !.back = bytes]
    /\ UNCHANGED <<callVars, prov, cyc>>

InitStaticPath ==
    /\ NoCalls
    /\ prov = NoProvision
    /\ cyc = NoCycle
    /\ \E f \in Platforms, p \in Paths :
          sp = [NoStaticPath EXCEPT !.at = "path", !.platform = f, !.path = p]

NextStaticPath ==
    \/ try_from
    \/ try_into_path

SpecStaticPath == InitStaticPath /\ [][NextStaticPath]_vars

\* ------------------------------------------------------ PartialVariants
\* The values of the type.
Values == 1..MaxVariants

\* What partial_variants can yield: any list of values, empty or with
\* repetitions.
VariantLists == UNION {[1..n -> Values] : n \in 0..MaxVariants}

\* Lines 57-61: the iterator is made peekable and its first item peeked; an
\* empty iterator panics.
partial_cycle_next_peek ==
    /\ cyc.at = "call"
    /\ IF cyc.variants = <<>>
       THEN cyc' = [cyc EXCEPT !.at = "panicked"]
       ELSE cyc' = [cyc EXCEPT !.at = "loop", !.first = cyc.variants[1]]
    /\ UNCHANGED <<callVars, prov, sp>>

\* The loop with the last item returned when the iterator runs out.
partial_cycle_next_no_wrap ==
    /\ cyc.at = "loop"
    /\ LET n == Len(cyc.variants)
           value == cyc.variants[cyc.pos + 1]
       IN  IF cyc.pos + 2 <= n
           THEN IF value = cyc.self
                THEN cyc' = [cyc EXCEPT !.at = "returned", !.pos = @ + 1,
                                        !.out = cyc.variants[cyc.pos + 2]]
                ELSE cyc' = [cyc EXCEPT !.pos = @ + 1]
           ELSE cyc' = [cyc EXCEPT !.at = "returned", !.pos = n, !.out = value]
    /\ UNCHANGED <<callVars, prov, sp>>

\* Lines 63-69: one evaluation of (iter.next(), iter.peek()).  pos items have
\* been taken.  With both Some the item taken is compared with self and the
\* peeked one returned on a match; otherwise the loop ends and first is
\* returned.  (The iterator is not empty, so next() is None only after peek()
\* was, and the loop has ended by then.)
partial_cycle_next_loop ==
    /\ cyc.at = "loop"
    /\ LET n == Len(cyc.variants)
           value == cyc.variants[cyc.pos + 1]
       IN  IF cyc.pos + 2 <= n
           THEN IF value = cyc.self
                THEN cyc' = [cyc EXCEPT !.at = "returned", !.pos = @ + 1,
                                        !.out = cyc.variants[cyc.pos + 2]]
                ELSE cyc' = [cyc EXCEPT !.pos = @ + 1]
           ELSE cyc' = [cyc EXCEPT !.at = "returned", !.pos = n, !.out = cyc.first]
    /\ UNCHANGED <<callVars, prov, sp>>

\* Lines 82-86: the iterator is made peekable and its first item peeked into
\* last; an empty iterator panics.
partial_cycle_prev_peek ==
    /\ cyc.at = "call_prev"
    /\ IF cyc.variants = <<>>
       THEN cyc' = [cyc EXCEPT !.at = "panicked"]
       ELSE cyc' = [cyc EXCEPT !.at = "loop_prev", !.pos = 0,
                               !.first = cyc.variants[1], !.last = cyc.variants[1]]
    /\ UNCHANGED <<callVars, prov, sp>>

\* The loop without the assignment to last.
partial_cycle_prev_keeps_last ==
    /\ cyc.at = "loop_prev"
    /\ LET n == Len(cyc.variants)
           value == cyc.variants[cyc.pos + 1]
       IN  IF cyc.pos + 2 <= n
           THEN LET next == cyc.variants[cyc.pos + 2]
                IN  IF next = cyc.self
                    THEN cyc' = [cyc EXCEPT !.at = "returned_prev", !.pos = @ + 1,
                                            !.out = value]
                    ELSE cyc' = [cyc EXCEPT !.pos = @ + 1]
           ELSE cyc' = [cyc EXCEPT !.at = "returned_prev", !.pos = n, !.out = cyc.last]
    /\ UNCHANGED <<callVars, prov, sp>>

\* Lines 88-95: one evaluation of (iter.next(), iter.peek()).  With both Some
\* the peeked item is stored in last and compared with self, and the item
\* taken is returned on a match; otherwise the loop ends and last is returned.
partial_cycle_prev_loop ==
    /\ cyc.at = "loop_prev"
    /\ LET n == Len(cyc.variants)
           value == cyc.variants[cyc.pos + 1]
       IN  IF cyc.pos + 2 <= n
           THEN LET next == cyc.variants[cyc.pos + 2]
                IN  IF next = cyc.self
                    THEN cyc' = [cyc EXCEPT !.at = "returned_prev", !.pos = @ + 1,
                                            !.last = next, !.out = value]
                    ELSE cyc' = [cyc EXCEPT !.pos = @ + 1, !.last = next]
           ELSE cyc' = [cyc EXCEPT !.at = "returned_prev", !.pos = n, !.out = cyc.last]
    /\ UNCHANGED <<callVars, prov, sp>>

\* A caller passes what partial_cycle_next returned to partial_cycle_prev.
prev_of_next ==
    /\ cyc.at = "returned"
    /\ cyc' = [cyc EXCEPT !.at = "call_prev", !.self = cyc.out, !.chained = TRUE]
    /\ UNCHANGED <<callVars, prov, sp>>

InitCycle ==
    /\ NoCalls
    /\ prov = NoProvision
    /\ sp = NoStaticPath
    /\ \E l \in VariantLists, v \in Values, f \in {"call", "call_prev"} :
          cyc = [NoCycle EXCEPT !.at = f, !.variants = l, !.self = v, !.x = v]

NextCycle ==
    \/ partial_cycle_next_peek
    \/ partial_cycle_next_loop
    \/ partial_cycle_prev_peek
    \/ partial_cycle_prev_loop
    \/ prev_of_next

SpecCycle == InitCycle /\ [][NextCycle]_vars

\* ================================================================ claims
\* What a call can return as an error.
Errors ==
    {"ErrName", "ErrNode", "ErrService", "ErrEventService", "ErrSubscriberCreate",
     "ErrSpawn", "ErrPublisherCreate", "ErrNotifierCreate", "ErrLoan", "ErrInput",
     "ErrSend", "ErrNotify", "ErrWait", "Timeout"}

\* The Subscriber Loop of c has left its while loop.
LoopEnded(c) == lpc[c] \in {"closing", "exited"}

\* The assumptions of C1: only single_process is called, no call failed, no
\* loop has ended, nobody called close().
Undisturbed ==
    \A c \in Callers :
        /\ kind[c] # "subscribe_only"
        /\ result[c] \notin Errors
        /\ ~LoopEnded(c)
        /\ ~close_called[c]

BecameSubscriber == {c \in Callers : result[c] = "Continue"}

DelegatedToExisting == {c \in Callers : result[c] = "Break"}

\* C1: at most one Subscriber Loop holds the subscriber slot in every state;
\* and as long as only single_process is called, without errors, close() or a
\* loop ending, at most one call has returned Continue, and once all calls
\* have returned exactly one returned Continue and every other one Break.
C1_ExactlyOneSubscriber ==
    /\ Cardinality({c \in Callers : sub[c]}) <= 1
    /\ Undisturbed =>
        /\ Cardinality(BecameSubscriber) <= 1
        /\ (\A c \in General : pc[c] = "done") =>
              /\ Cardinality(BecameSubscriber) = 1
              /\ DelegatedToExisting = General \ BecameSubscriber

\* C1 witness: all calls have returned undisturbed, one as subscriber.
C1_Witness ==
    /\ Undisturbed
    /\ \A c \in General : pc[c] = "done"
    /\ \E c \in Callers : result[c] = "Continue" /\ sub[c] /\ lpc[c] = "wait"


\* ------------------------------------------------------------------- C2
\* C2: a single_process call that returned an error has sent no message.
C2_ErrorMeansNothingSent ==
    \A c \in Callers :
        (kind[c] = "single_process" /\ result[c] \in Errors) => ~sent[c]

\* C2 witness: a call failed in the Publish Path, in front of a live
\* subscriber whose buffer is still empty.
C2_Witness ==
    \E c, a \in Callers :
        /\ kind[c] = "single_process"
        /\ result[c] \in {"ErrInput", "ErrSend"}
        /\ sub[a] /\ lpc[a] = "wait" /\ queue[a] = <<>>

\* ------------------------------------------------------------------- C3
\* The number of times m occurs in the sequence q.
Count(m, q) == Cardinality({i \in 1..Len(q) : q[i] = m})

\* B delegated to A: A became subscriber through single_process, its loop has
\* not ended, and B's message was pushed to A's subscriber.
DelegatedTo(b, a) ==
    /\ result[a] = "Continue"
    /\ ~LoopEnded(a)
    /\ sent[b]
    /\ a \in sent_to[b]

\* C3: while A stays live, a message B sent to it is either still in A's buffer
\* or was passed to A's handler, once in all; and once B has returned Break the
\* handler is eventually invoked with it (or A's loop ends).
C3_HandledExactlyOnce ==
    /\ [](\A a, b \in Callers :
            DelegatedTo(b, a) => Count(b, queue[a]) + Count(b, handled[a]) = 1)
    /\ \A a, b \in Callers :
            (DelegatedTo(b, a) /\ result[b] = "Break")
                ~> (Count(b, handled[a]) = 1 \/ LoopEnded(a))

\* C3 witness: B returned Break and A's handler has seen B's message once.
C3_Witness ==
    \E a, b \in Callers :
        /\ DelegatedTo(b, a)
        /\ result[b] = "Break"
        /\ handled[a] = <<b>>
        /\ queue[a] = <<>>

\* ------------------------------------------------------------------- C4
\* C4: once close() has been called, is_closed() is true, the loop starts at
\* most one further wait, and it eventually ends with the slot released.
C4_CloseStopsLoop ==
    /\ [](\A c \in Callers :
            close_called[c] => is_closed(c) /\ waits_after_close[c] <= 1)
    /\ \A c \in Callers :
            close_called[c] ~> (lpc[c] = "exited" /\ ~sub[c])

\* C4 witness: close() was called between the load of keep_alive and the wait,
\* so the loop is in the one wait it started after close().
C4_Witness ==
    \E c \in Callers :
        /\ close_called[c]
        /\ lpc[c] = "wait"
        /\ waits_after_close[c] = 1
        /\ is_closed(c)

\* ------------------------------------------------------------------- C5
\* C5: in the loop the time spent is within the timeout when a Replace signal
\* is fired and within timeout plus the current bound (at most 100 ms) after
\* the wait; the timeout error is returned only when the time spent exceeds
\* the timeout, and with the slot occupied and the timeout exceeded the
\* creation attempt ends the call.
C5_TimeoutBound ==
    /\ [](\A c \in Callers :
            /\ pc[c] \in {"signal", "wait"} => loc[c].elapsed <= loc[c].timeout
            /\ pc[c] = "retry" =>
                  /\ loc[c].elapsed <= loc[c].timeout + loc[c].max_sleep
                  /\ loc[c].max_sleep <= SleepCapMs)
    /\ [][\A c \in Callers :
            /\ (result[c] = "none" /\ result'[c] = "Timeout") =>
                  /\ pc[c] = "retry"
                  /\ loc[c].elapsed > loc[c].timeout
                  /\ loc[c].elapsed <= loc[c].timeout + SleepCapMs
            /\ (pc[c] = "retry" /\ pc'[c] # "retry" /\ ~SlotFree
                    /\ loc[c].elapsed > loc[c].timeout) =>
                  result'[c] \in {"Timeout", "ErrSubscriberCreate"}]_vars

\* C5 witness: the slot is occupied and the time spent is exactly the timeout
\* plus the largest bound.
C5_Witness ==
    \E c \in Callers :
        /\ pc[c] = "retry"
        /\ ~SlotFree
        /\ loc[c].elapsed = loc[c].timeout + SleepCapMs

\* ------------------------------------------------------------------- C6
\* C6 as stated: an acquirer whose first Replace signal reached the listener
\* of the slot holder never fails its second creation attempt.
C6_SecondAttemptSucceeds ==
    \A c \in Callers :
        loc[c].hit => ~(pc[c] = "signal" /\ loc[c].attempts = 2)

\* C6 as amended: a creation attempt of the loop made while the slot is free
\* obtains the slot (or ends the call with the transport's error); it neither
\* fails with slot-occupied nor returns the timeout error.
C6_FirstAttemptAfterRelease ==
    [][\A c \in Callers :
        (pc[c] = "retry" /\ pc'[c] # "retry" /\ SlotFree) =>
            \/ pc'[c] = "spawn" /\ sub'[c]
            \/ result'[c] = "ErrSubscriberCreate"]_vars

\* C6 witness: the first Replace signal reached the old loop, the old loop
\* released the slot, and the second attempt obtained it.
C6_Witness ==
    \E c, a \in Callers :
        /\ pc[c] = "spawn" /\ sub[c]
        /\ loc[c].hit
        /\ loc[c].attempts = 2
        /\ loc[c].replaces = 1
        /\ LoopEnded(a)

\* ------------------------------------------------------------------- C7
\* The loop of a ended by itself: by the Replace signal or by close().
EndedByFlag(a) == lpc[a] = "exited" \/ ended_by[a] = "keep_alive"

\* The scenario of C7 has two parties: the subscriber and the acquirer.
TwoParties == Cardinality({x \in Callers : pc[x] # "idle"}) <= 2

\* C7: with a timeout of 200 ms, every thread scheduled promptly and no third
\* caller, a subscribe_only call never returns the timeout error, and it
\* eventually returns; while it holds the slot no other loop holds it or is
\* inside its while loop, and the handle of a loop that ended by the flag
\* reports is_closed().
C7_ReplaceSucceeds ==
    /\ [](\A c \in Acquirers :
            /\ TwoParties => result[c] # "Timeout"
            /\ sub[c] =>
                \A a \in Callers \ {c} :
                    /\ ~sub[a]
                    /\ lpc[a] \in {"none", "closing", "exited"}
                    /\ (HasHandle(a) /\ EndedByFlag(a)) => is_closed(a))
    /\ \A c \in Acquirers : (pc[c] = "signal") ~> (pc[c] = "done")

\* C7 witness: C went through the loop and holds the slot, A had become the
\* subscriber, its loop has ended and its handle reports closed.
C7_Witness ==
    \E c \in Acquirers, a \in Callers :
        /\ TwoParties
        /\ pc[c] = "spawn" /\ sub[c]
        /\ loc[c].replaces >= 1
        /\ loc[c].timeout = DefaultTimeoutMs
        /\ result[a] = "Continue"
        /\ lpc[a] = "exited"
        /\ is_closed(a)

\* ------------------------------------------------------------------- C8
\* C8: is_closed() is true exactly when the flag is gone or reads false; once
\* the loop's thread has finished it is true on the handle and its clones;
\* and a close() after that changes nothing but the record of the call.
C8_ClosedAfterExit ==
    /\ [](\A c \in Callers :
            /\ is_closed(c) <=> (~strong[c] \/ ~keep_alive[c])
            /\ lpc[c] = "exited" =>
                  /\ is_closed(SubscriberHandle(c).keep_alive)
                  /\ is_closed(clone(SubscriberHandle(c)).keep_alive))
    /\ [][\A c \in Callers :
            (lpc[c] = "exited" /\ ~close_called[c] /\ close_called'[c]) =>
                UNCHANGED <<callerVars, sub, queue, loopVars, subscriber_id,
                            COUNTER, sendVars>>]_vars

\* C8 witness: the thread has finished, the handle exists and close() was
\* called on it.
C8_Witness ==
    \E c \in Callers :
        /\ lpc[c] = "exited"
        /\ HasHandle(c)
        /\ close_called[c]
        /\ is_closed(c)

\* ------------------------------------------------------------------- C9
\* C9: a clone equals its handle; two handles made by different new() calls of
\* one process are unequal; every identity handed out is below the counter.
C9_IdentityUnique ==
    \A a, b \in Callers :
        (HasHandle(a) /\ HasHandle(b)) =>
            /\ eq(clone(SubscriberHandle(a)), SubscriberHandle(a))
            /\ subscriber_id[a] < COUNTER[ProcOf(a)]
            /\ ProcOf(a) = ProcOf(b) =>
                  (eq(SubscriberHandle(a), SubscriberHandle(b)) <=> a = b)

\* C9 witness: two handles of one process exist.
C9_Witness ==
    \E a, b \in Callers :
        /\ a # b
        /\ ProcOf(a) = ProcOf(b)
        /\ HasHandle(a) /\ HasHandle(b)
        /\ ~eq(SubscriberHandle(a), SubscriberHandle(b))

\* ------------------------------------------------------------------ C10
\* C10 as stated: the bound of the first iteration's wait is 2 ms.
C10_FirstBoundIsInitial ==
    \A c \in Callers :
        (pc[c] = "wait" /\ loc[c].replaces = 1) => loc[c].max_sleep = InitialSleepMs

\* C10 as amended: the bound of the first wait is 4 ms, each later bound is
\* the smaller of twice the one before and 100 ms, no bound exceeds 100 ms,
\* and each wait lasts between 0 and the current bound.
C10_BackoffBound ==
    /\ [](\A c \in Callers :
            pc[c] \in {"wait", "retry"} =>
                /\ loc[c].max_sleep <= SleepCapMs
                /\ loc[c].replaces = 1 => loc[c].max_sleep = 2 * InitialSleepMs)
    /\ [][\A c \in Callers :
            /\ (pc[c] = "signal" /\ pc'[c] = "wait") =>
                  loc'[c].max_sleep = Min(SleepCapMs, 2 * loc[c].max_sleep)
            /\ (pc[c] = "wait" /\ pc'[c] = "retry") =>
                  /\ loc'[c].elapsed - loc[c].elapsed >= 0
                  /\ loc'[c].elapsed - loc[c].elapsed <= loc[c].max_sleep]_vars

\* C10 witness: the bound has reached the cap and a wait of that length went by.
C10_Witness ==
    \E c \in Callers :
        /\ pc[c] = "retry"
        /\ loc[c].max_sleep = SleepCapMs
        /\ loc[c].elapsed >= SleepCapMs

\* ------------------------------------------------------------------ C11
\* C11 as stated: no call returns the failure of a wait.
C11_WaitNeverEscalated ==
    \A c \in Callers : result[c] # "ErrWait"

\* C11 as amended: the settle wait of the Publish Path always ends in Break,
\* and single_process never returns the failure of a wait; the failure of the
\* wait of the Replace/Acquire loop is returned by subscribe_only, from the
\* wait itself, with no slot taken and no loop started by that step.
C11_OnlySettleWaitAdvisory ==
    /\ [](\A c \in Callers :
            kind[c] = "single_process" => result[c] # "ErrWait")
    /\ [][\A c \in Callers :
            /\ (pc[c] = "settle" /\ pc'[c] # "settle") => result'[c] = "Break"
            /\ (result[c] = "none" /\ result'[c] = "ErrWait") =>
                  /\ pc[c] = "wait"
                  /\ kind[c] = "subscribe_only"
                  /\ UNCHANGED <<sub, queue, lpc>>]_vars

\* C11 witness: subscribe_only returned the failure of its post-signal wait
\* while the slot is still held by the subscriber it signalled.
C11_Witness ==
    \E c, a \in Callers :
        /\ kind[c] = "subscribe_only"
        /\ result[c] = "ErrWait"
        /\ sub[a] /\ a # c

\* ------------------------------------------------------------------ C12
\* The errors that end the Replace/Acquire loop at once.
LoopFatal == {"ErrNotify", "ErrSubscriberCreate"}

\* C12: the loop goes on to its wait only when the Replace signal reached
\* every listener, and to a further iteration only when the slot was occupied;
\* a failed signal or another creation error returns at that step, with no
\* signal fired, no slot taken and no loop started, and a returned call takes
\* no further step of the loop.
C12_LoopAbortsOnError ==
    /\ [](\A c \in Callers :
            (kind[c] = "subscribe_only" /\ result[c] \in LoopFatal) =>
                pc[c] = "done" /\ ~sub[c] /\ lpc[c] = "none")
    /\ [][\A c \in Callers :
            /\ (pc[c] = "signal" /\ pc'[c] = "wait") =>
                  \A a \in Callers : HasListener(a) => REPLACE_EVENT \in pend'[a]
            /\ (pc[c] = "retry" /\ pc'[c] = "signal") => ~SlotFree
            /\ (pc[c] \in {"signal", "retry"} /\ result'[c] \in LoopFatal) =>
                  /\ pc'[c] = "done"
                  /\ UNCHANGED <<sub, queue, lpc, pend>>
            /\ pc[c] = "done" => pc'[c] = "done" /\ result'[c] = result[c]]_vars

\* C12 witness: the Replace signal failed in front of a subscriber that
\* listens, and the call has returned that error.
C12_Witness ==
    \E c, a \in Callers :
        /\ kind[c] = "subscribe_only"
        /\ result[c] = "ErrNotify"
        /\ sub[a] /\ HasListener(a)
        /\ REPLACE_EVENT \notin pend[a]

\* ------------------------------------------------------------------ C13
\* C13: only subscribe_only returns the timeout error, only from a creation
\* attempt of the loop that found the slot occupied with the time spent above
\* the timeout; a call that holds the slot does not return it.
C13_TimeoutOnlyFromLoop ==
    /\ [](\A c \in Callers :
            result[c] = "Timeout" => kind[c] = "subscribe_only" /\ ~sub[c])
    /\ [][\A c \in Callers :
            /\ (result[c] = "none" /\ result'[c] = "Timeout") =>
                  /\ kind[c] = "subscribe_only"
                  /\ pc[c] = "retry"
                  /\ loc[c].replaces >= 1
                  /\ ~SlotFree
                  /\ loc[c].elapsed > loc[c].timeout
            /\ pc[c] = "spawn" => result'[c] # "Timeout"]_vars

\* C13 witness: subscribe_only returned the timeout error and another caller
\* still holds the slot.
C13_Witness ==
    \E c, a \in Callers :
        /\ kind[c] = "subscribe_only"
        /\ result[c] = "Timeout"
        /\ sub[a] /\ lpc[a] = "wait"

\* ------------------------------------------------------------------ C14
\* C14: after the send the call goes to its settle wait and from there to
\* Break; the wait is 50 ms when the Notify signal reached every listener and
\* 200 ms when it was not fired; neither step touches the data channel.
C14_SentMeansSuccess ==
    /\ [](\A c \in Callers :
            pc[c] \in {"notify", "settle"} => sent[c] /\ result[c] = "none")
    /\ [][\A c \in Callers :
            /\ (pc[c] = "notify" /\ pc'[c] # "notify") =>
                  /\ pc'[c] = "settle"
                  /\ queue' = queue
                  /\ loc'[c].settle \in {SettleShortMs, SettleLongMs}
                  /\ loc'[c].settle = SettleShortMs =>
                        \A a \in Callers : HasListener(a) => NOTIFY_EVENT \in pend'[a]
                  /\ loc'[c].settle = SettleLongMs => pend' = pend
            /\ (pc[c] = "settle" /\ pc'[c] # "settle") =>
                  /\ result'[c] = "Break"
                  /\ queue' = queue
                  /\ sent'[c]]_vars

\* C14 witness: the Notify signal failed, the publisher is in its 200 ms
\* wait, and its message is in the buffer of a subscriber that was not woken.
C14_Witness ==
    \E c, a \in Callers :
        /\ pc[c] = "settle"
        /\ loc[c].settle = SettleLongMs
        /\ sub[a] /\ HasListener(a)
        /\ NOTIFY_EVENT \notin pend[a]
        /\ Count(c, queue[a]) = 1

\* ------------------------------------------------------------------ C15
\* The run is past build_service.
ServiceTried == prov.at \in {"event", "done"} /\ prov.name_ok /\ prov.node_ok

\* C15: the data channel is attempted once when the first attempt succeeds
\* and twice, with one sweep between, when it fails; what the sweep logged
\* never decides the result, which is the second attempt's; the event channel
\* is attempted once; and the run's result is the one single_process_ and
\* subscribe_only_ act on.
C15_AtMostTwoAttempts ==
    /\ prov.attempts <= 2 /\ prov.sweeps <= 1 /\ prov.event_attempts <= 1
    /\ ServiceTried =>
          /\ prov.attempts = (IF prov.first = "ok" THEN 1 ELSE 2)
          /\ prov.sweeps = prov.attempts - 1
          /\ prov.first # "ok" =>
                (prov.error = "none") = (prov.second = "ok")
          /\ prov.error \in {"none", prov.second}
    /\ prov.at = "done" =>
          /\ prov.event_attempts = (IF prov.result \in {"ok", "ErrEventService"} THEN 1 ELSE 0)
          /\ prov.result = Provision(prov.name_ok, prov.node_ok, prov.first,
                                     sweep(prov.list_ok, prov.nodes),
                                     prov.second, prov.event_ok)

\* C15 witness: the first attempt failed, the sweep found a dead node it
\* could not reclaim and the list failed, the second attempt succeeded, and
\* the run ended well.
C15_Witness ==
    /\ prov.at = "done"
    /\ prov.result = "ok"
    /\ prov.first = "err"
    /\ prov.attempts = 2 /\ prov.sweeps = 1
    /\ prov.warned >= 2
    /\ prov.event_attempts = 1

\* ------------------------------------------------------------------ C16
\* C16 as stated: a first attempt that fails because the channel exists with
\* another shape is followed by no sweep and no second attempt, and that
\* error is surfaced.
C16_NoSweepOnOtherShape ==
    (ServiceTried /\ prov.first = "incompatible") =>
        /\ prov.sweeps = 0
        /\ prov.attempts = 1
        /\ prov.error = "incompatible"

\* C16 as amended: every failure of the first attempt, the one of another
\* shape included, is followed by the sweep and the second attempt, and the
\* error surfaced is the second attempt's; after a first attempt that
\* succeeded there is no sweep.
C16_SweepOnAnyFailure ==
    ServiceTried =>
        /\ \A f \in ServiceOutcomes \ {"ok"} :
              prov.first = f =>
                  /\ prov.sweeps = 1
                  /\ prov.attempts = 2
                  /\ prov.second # "ok" => prov.error = prov.second
        /\ prov.first = "ok" => prov.sweeps = 0 /\ prov.error = "none"

\* C16 witness: the channel existed with another shape at the first attempt,
\* the sweep ran, and the second attempt succeeded.
C16_Witness ==
    /\ ServiceTried
    /\ prov.first = "incompatible"
    /\ prov.sweeps = 1
    /\ prov.second = "ok"
    /\ prov.at = "event"

\* ------------------------------------------------------------------ C17
\* The errors of the setup: names, node, data channel, event channel.
SetupErrors == {"ErrName", "ErrNode", "ErrService", "ErrEventService"}

\* C17: a call that returned a setup error holds no slot, has no loop thread,
\* no handle identity and no message sent; and the step that returned it
\* changed nothing but the caller's own position and result: no slot, buffer,
\* loop, signal, counter or message.
C17_SetupFailureLeavesNothing ==
    /\ [](\A c \in Callers :
            result[c] \in SetupErrors =>
                /\ ~sub[c]
                /\ lpc[c] = "none"
                /\ ~strong[c]
                /\ subscriber_id[c] = 0
                /\ ~sent[c] /\ sent_to[c] = {})
    /\ [][\A c \in Callers :
            (result[c] = "none" /\ result'[c] \in SetupErrors) =>
                /\ pc[c] = "idle"
                /\ UNCHANGED <<sub, queue, loopVars, handleVars, sendVars>>]_vars

\* C17 witness: both entry points failed in the setup, one at the event
\* channel, while nobody holds the slot.
C17_Witness ==
    \E c, d \in Callers :
        /\ kind[c] = "single_process" /\ result[c] = "ErrEventService"
        /\ kind[d] = "subscribe_only" /\ result[d] \in SetupErrors
        /\ \A a \in Callers : ~sub[a]

\* ------------------------------------------------------------------ C18
\* The path can be encoded on the platform.
Encodable == sp.platform = "unix" \/ to_str_ok(sp.path)

\* C18: a path of at most N bytes that the platform can encode is converted
\* without an error in either direction, and the path that comes back has the
\* bytes of the original.
C18_RoundTrip ==
    /\ (Len(sp.path) <= N /\ Encodable) => sp.at \notin {"failed", "failed_back"}
    /\ sp.at = "back" => sp.back = sp.path /\ sp.error = NoError

\* C18 witness: a path shorter than N went to StaticPath<N> and back.
C18_Witness ==
    /\ sp.at = "back"
    /\ Len(sp.path) = N - 1
    /\ sp.back = sp.path
    /\ sp.platform = "windows"

\* ------------------------------------------------------------------ C19
\* C19: a path the platform can encode in more than N bytes is never built;
\* its conversion fails with TooLong, at_most = N and len = its length; and
\* every StaticPath<N> built holds at most N bytes.
C19_TooLong ==
    /\ (Len(sp.path) > N /\ Encodable) =>
          /\ sp.at \in {"path", "failed"}
          /\ sp.at = "failed" =>
                sp.error = [kind |-> "TooLong", at_most |-> N, len |-> Len(sp.path)]
    /\ sp.error.kind = "TooLong" => Len(sp.path) > N
    /\ sp.at \in {"built", "back", "failed_back"} =>
          sp.len <= N /\ sp.len = Len(sp.path)

\* C19 witness: a path one byte longer than N, not UTF-8, failed on unix.
C19_Witness ==
    /\ sp.at = "failed"
    /\ sp.platform = "unix"
    /\ ~to_str_ok(sp.path)
    /\ sp.error = [kind |-> "TooLong", at_most |-> N, len |-> N + 1]

\* ------------------------------------------------------------------ C20
\* The list has no value twice.
Distinct(l) == \A i, j \in 1..Len(l) : l[i] = l[j] => i = j

\* The places of x in the list.
IndexOf(l, x) == {i \in 1..Len(l) : l[i] = x}

\* C20: for a non-empty list of distinct values the call returns; what it
\* returns is the item after self when self is in the list and not its last
\* item, and the first item when self is the last item or not in the list.
C20_CycleNext ==
    (cyc.variants # <<>> /\ Distinct(cyc.variants)) =>
        /\ cyc.at # "panicked"
        /\ cyc.at = "returned" =>
              LET l == cyc.variants
              IN  /\ \A i \in IndexOf(l, cyc.self) :
                        cyc.out = (IF i < Len(l) THEN l[i + 1] ELSE l[1])
                  /\ IndexOf(l, cyc.self) = {} => cyc.out = l[1]

\* C20 witness: self is the last of three distinct items and the first item
\* was returned.
C20_Witness ==
    /\ cyc.at = "returned"
    /\ Len(cyc.variants) = 3
    /\ Distinct(cyc.variants)
    /\ cyc.variants[3] = cyc.self
    /\ cyc.out = cyc.variants[1]

\* ------------------------------------------------------------------ C21
\* C21: for a non-empty list of distinct values partial_cycle_prev returns;
\* what it returns is the item before self when self is in the list and not
\* its first item, and the last item when self is the first item or not in
\* the list; and applied to what partial_cycle_next returned for an x of the
\* list, it returns x.
C21_CyclePrev ==
    (cyc.variants # <<>> /\ Distinct(cyc.variants)) =>
        /\ cyc.at # "panicked"
        /\ cyc.at = "returned_prev" =>
              LET l == cyc.variants
              IN  /\ \A i \in IndexOf(l, cyc.self) :
                        cyc.out = (IF i > 1 THEN l[i - 1] ELSE l[Len(l)])
                  /\ IndexOf(l, cyc.self) = {} => cyc.out = l[Len(l)]
                  /\ (cyc.chained /\ IndexOf(l, cyc.x) # {}) => cyc.out = cyc.x

\* C21 witness: x is the last of three distinct items, partial_cycle_next
\* returned the first, and partial_cycle_prev of that returned x.
C21_Witness ==
    /\ cyc.at = "returned_prev"
    /\ cyc.chained
    /\ Len(cyc.variants) = 3
    /\ Distinct(cyc.variants)
    /\ cyc.variants[3] = cyc.x
    /\ cyc.self = cyc.variants[1]
    /\ cyc.out = cyc.x

TransportEnds == {"listener", "wait", "receive"}

\* C23: the step in which the listener creation, the wait or receive() fails
\* takes the loop out of its while loop, releases the slot and invokes no
\* handler; from there the thread only ends: it takes no slot, invokes no
\* handler and enters no wait; and it eventually has ended with is_closed()
\* true.
C23_TransportErrorEndsLoop ==
    /\ [][\A c \in Callers :
            /\ (ended_by[c] = "none" /\ ended_by'[c] \in TransportEnds) =>
                  /\ lpc'[c] = "closing"
                  /\ ~sub'[c]
                  /\ handled'[c] = handled[c]
            /\ lpc[c] = "closing" =>
                  /\ lpc'[c] \in {"closing", "exited"}
                  /\ ~sub'[c]
                  /\ Len(handled'[c]) <= Len(handled[c])
            /\ lpc[c] = "exited" => lpc'[c] = "exited" /\ ~keep_alive'[c]]_vars
    /\ \A c \in Callers :
            (ended_by[c] \in TransportEnds) ~> (lpc[c] = "exited" /\ is_closed(c))

\* C23 witness: receive() failed with a message in the buffer after the
\* handler had been invoked; the slot is free and the thread is about to end.
C23_Witness ==
    \E c \in Callers :
        /\ lpc[c] = "closing"
        /\ ended_by[c] = "receive"
        /\ ~sub[c]
        /\ Len(handled[c]) = 1

\* ------------------------------------------------------------------ C24
\* The loop thread of c runs and has not left its while loop.
LoopLive(c) == lpc[c] \in {"start", "check", "enter", "wait", "drain"}

\* C24 as stated, its last part: the buffer is empty whenever a wait starts.
C24_EmptyAtWaitStart ==
    [][\A c \in Callers :
        (lpc[c] = "enter" /\ lpc'[c] = "wait") => queue[c] = <<>>]_vars

\* C24 as amended: every return of the wait that does not end the loop, by a
\* signal or by the timeout, leads to the drain; the drain ends only on an
\* empty buffer; and a message in the buffer of a live loop is eventually
\* passed to the handler, unless the loop ends.  (A message sent after the
\* drain found the buffer empty, or before the first wait, is in the buffer
\* when the wait starts.)
C24_HandledWithoutNotify ==
    /\ [][\A c \in Callers :
            /\ (lpc[c] = "wait" /\ lpc'[c] \notin {"wait", "closing"}) =>
                  lpc'[c] = "drain"
            /\ (lpc[c] = "drain" /\ lpc'[c] = "check") => queue[c] = <<>>]_vars
    /\ \A a, b \in Callers :
            (LoopLive(a) /\ Count(b, queue[a]) = 1)
                ~> (Count(b, handled[a]) = 1 \/ LoopEnded(a))

\* C24 witness: the publisher has returned, its message is in the buffer, and
\* the loop is in a wait with no signal pending: only the timeout wakes it.
C24_Witness ==
    \E a, b \in Callers :
        /\ result[b] = "Break"
        /\ lpc[a] = "wait"
        /\ pend[a] = {}
        /\ Count(b, queue[a]) = 1

\* ------------------------------------------------------------------ C25
\* The Replace/Acquire loop of c is running.
InAcquireLoop(c) == pc[c] \in {"signal", "wait", "retry"}

\* C25: with two subscribe_only callers against an occupied channel, at most
\* one thread holds the slot in every state, and a caller in the
\* Replace/Acquire loop eventually has returned, with a handle or an error.
C25_RaceResolved ==
    /\ [](Cardinality({c \in Callers : sub[c]}) <= 1)
    /\ \A c \in Racers :
            InAcquireLoop(c)
                ~> (pc[c] = "done" /\ result[c] \in {"Handle"} \cup Errors)

\* C25 witness: both subscribe_only callers are in the Replace/Acquire loop
\* at once while the subscriber they signal holds the slot.
C25_Witness ==
    /\ \A c \in Racers : InAcquireLoop(c)
    /\ Cardinality(Racers) >= 2
    /\ sub[1] /\ lpc[1] = "wait"

\* ------------------------------------------------------------------ C26
\* C26: once the thread of a loop is spawned its flag never goes from false
\* to true and its Arc never comes back, so for a caller holding a handle
\* is_closed(), once true, is true after every later step.
C26_FlagOnlyFalls ==
    [][\A c \in Callers :
        /\ (lpc[c] # "none" /\ ~keep_alive[c]) => ~keep_alive'[c]
        /\ (lpc[c] # "none" /\ ~strong[c]) => ~strong'[c]
        /\ (HasHandle(c) /\ is_closed(c)) => (HasHandle(c)' /\ is_closed(c)')]_vars

\* C26 witness: close() was called on the handle of a loop whose thread still
\* runs, is_closed() is true, and the loop has since woken with a message of
\* a single_process caller whose Notify signal was fired.
C26_Witness ==
    \E c, b \in Callers :
        /\ HasHandle(c) /\ close_called[c] /\ strong[c] /\ is_closed(c)
        /\ lpc[c] = "drain" /\ queue[c] # <<>>
        /\ pc[b] = "settle" /\ loc[b].settle = SettleShortMs

\* ------------------------------------------------------------------ C27
\* The Publish Path of c takes a step.
PublishStep(c) == pc[c] \in {"publish", "notify", "settle"} /\ pc'[c] # pc[c]

\* C27: a step of the Publish Path marks no event but Notify and changes no
\* flag and no slot; a wake without a Replace signal pending leaves the flag
\* as it was; a Replace signal is only marked by a subscribe_only caller at
\* its signal step; a flag only falls by close(), by a wake with a Replace
\* signal pending or at the end of the thread; and a loop only leaves its
\* while loop by an error or on a flag that is false.
C27_NotifyNeverEvicts ==
    [][\A c \in Callers :
        /\ PublishStep(c) =>
              /\ \A a \in Callers : pend'[a] \subseteq pend[a] \cup {NOTIFY_EVENT}
              /\ keep_alive' = keep_alive
              /\ sub' = sub
              /\ lpc' = lpc
        /\ (lpc[c] = "wait" /\ REPLACE_EVENT \notin pend[c] /\ lpc'[c] = "drain") =>
              keep_alive'[c] = keep_alive[c]
        /\ (REPLACE_EVENT \in pend'[c] /\ REPLACE_EVENT \notin pend[c]) =>
              \E b \in Callers : kind[b] = "subscribe_only" /\ pc[b] = "signal" /\ pc'[b] # "signal"
        /\ (keep_alive[c] /\ ~keep_alive'[c]) =>
              \/ close_called'[c] /\ lpc'[c] = lpc[c]
              \/ lpc[c] = "wait" /\ REPLACE_EVENT \in pend[c]
              \/ lpc[c] = "closing"
        /\ (LoopLive(c) /\ lpc'[c] = "closing") =>
              \/ ended_by'[c] \in TransportEnds \cup {"handler"}
              \/ ended_by'[c] = "keep_alive" /\ ~keep_alive[c]]_vars

\* C27 witness: a single_process caller has delegated to the loop of c, the
\* loop woke on the Notify signal, passed the message to its handler and is
\* in its next wait, live and holding the slot.
C27_Witness ==
    \E c, b \in Callers :
        /\ result[b] = "Break" /\ sent_to[b] = {c}
        /\ Count(b, handled[c]) = 1
        /\ lpc[c] = "wait" /\ keep_alive[c] /\ sub[c] /\ ~close_called[c]

\* ------------------------------------------------------------------ C28
\* C28: the timeout error is only returned by a creation attempt of the loop,
\* made after at least one Replace signal was fired; an iteration goes from
\* the signal to the wait, from the wait to the creation attempt and from
\* there back to the signal; and, as far as the counters count, at a
\* creation attempt of the loop as many Replace signals were fired as
\* iterations were begun, one more than retries were completed.
C28_SignalWaitRetry ==
    /\ [][\A c \in Callers :
            /\ (result'[c] = "Timeout" /\ result[c] # "Timeout") =>
                  /\ pc[c] = "retry"
                  /\ loc[c].replaces >= 1
                  /\ loc[c].attempts >= 1
            /\ pc[c] = "idle" => pc'[c] # "wait" /\ pc'[c] # "retry"
            /\ pc[c] = "signal" => pc'[c] \in {"signal", "wait", "done"}
            /\ (pc[c] = "signal" /\ pc'[c] = "wait") =>
                  loc'[c].replaces = Min(loc[c].replaces + 1, MaxCount)
            /\ pc[c] = "wait" => pc'[c] \in {"wait", "retry", "done"}
            /\ pc[c] = "retry" => pc'[c] \in {"retry", "signal", "spawn", "done"}]_vars
    /\ [](\A c \in Callers :
            /\ (pc[c] \in {"wait", "retry"} /\ loc[c].replaces < MaxCount) =>
                  loc[c].replaces = loc[c].attempts
            /\ (pc[c] = "signal" /\ loc[c].attempts < MaxCount) =>
                  loc[c].replaces = loc[c].attempts - 1)

\* C28 witness: a subscribe_only call with timeout zero is at its second
\* creation attempt, after one Replace signal and a wait of more than zero,
\* and the slot is still occupied: the attempt returns the timeout error.
C28_Witness ==
    \E c \in Callers :
        /\ pc[c] = "retry" /\ loc[c].timeout = 0 /\ timed_out(loc[c])
        /\ loc[c].replaces = 1 /\ loc[c].attempts = 1
        /\ ~SlotFree

\* ------------------------------------------------------------------ C29
\* C29: the step in which the handler returns an error for the message it
\* was passed takes the loop out of its while loop and releases the slot,
\* and changes nothing of any call; from there the handler is invoked no
\* more, the thread takes one step only, which stores false and ends it; and
\* a loop ended by its handler eventually has exited with is_closed() true
\* and the slot free of it.
C29_HandlerErrorEndsLoop ==
    /\ [][\A c \in Callers :
            /\ (ended_by[c] = "none" /\ ended_by'[c] = "handler") =>
                  /\ lpc[c] = "drain" /\ queue[c] # <<>>
                  /\ handled'[c] = Append(handled[c], Head(queue[c]))
                  /\ lpc'[c] = "closing"
                  /\ ~sub'[c]
                  /\ pc' = pc /\ result' = result
            /\ ended_by[c] = "handler" =>
                  /\ Len(handled'[c]) <= Len(handled[c])
                  /\ ~sub'[c]
                  /\ lpc'[c] \in {"closing", "exited"}
                  /\ lpc'[c] = "exited" => ~keep_alive'[c]]_vars
    /\ \A c \in Callers :
            (ended_by[c] = "handler") ~> (lpc[c] = "exited" /\ is_closed(c) /\ ~sub[c])

\* C29 witness: two callers sent their message into the buffer of the loop
\* of c, the handler was passed one message only and returned an error, and
\* the loop has left its while loop: the other message was never handled.
C29_Witness ==
    \E c, a, b \in Callers :
        /\ a # b
        /\ sent_to[a] = {c} /\ sent_to[b] = {c}
        /\ lpc[c] = "closing" /\ ended_by[c] = "handler"
        /\ Len(handled[c]) = 1
        /\ ~sub[c]

=============================================================================
